---- MODULE Spec2Model ----
(***************************************************************************)
(* A model of the three scripts of the repository:                         *)
(*   a4/functions.py        read .gpx files, merge, filter to the Salzburg *)
(*                          bounding box, plot_map                         *)
(*   facets_test.py         read .gpx and .fit files, compute dist, merge, *)
(*                          facet plot                                     *)
(*   a4/strava_unzipper.py  unzip_strava_files                             *)
(* One behaviour is one run of one script (variable script); the value     *)
(* "plot_map" is a call of functions.plot_map with an arbitrary table and  *)
(* arbitrary optional bounds.                                              *)
(*                                                                         *)
(* Coordinates are integers in hundredths of a degree (12.9 -> 1290).      *)
(* math.sqrt is modelled by the integer square root (floor), which keeps   *)
(* the properties used here: it is >= 0, and 0 exactly for equal points.   *)
(* What the environment supplies (directory listing, bytes of a file, the  *)
(* document gpxpy/fit2gpx return, the outcome of a gzip extraction) is     *)
(* chosen with \E when the code reads it.                                  *)
(***************************************************************************)
EXTENDS Integers, Sequences, FiniteSets

VARIABLES
    script,          \* which script runs
    pc,              \* position in the script
    dir_exists,      \* os.path.exists(gpx_folder)
    listing,         \* os.listdir(folder): sequence of file names
    gpx_fit_files,   \* facets_test.py gpx_fit_files: the paths of the .gpx and .fit entries
    i,               \* index of the file loop
    cur,             \* facts about the bytes of the file being read
    tried,           \* decode attempts made by read_gpx_file for this file
    df,              \* the per-file table of the last file read
    df_list,         \* functions.py df_list
    dfs,             \* facets_test.py dfs
    df_all,          \* the merged table
    df_salzburg,     \* functions.py df_salzburg / the table passed to plot_map
    box,             \* plot_map's lon_min, lon_max, lat_min, lat_max
    plot_df,         \* plot_map's local df after its filters
    lines,           \* what was plotted: one line per activity
    stdout,          \* printed messages
    reads,           \* history: per candidate file, what it held and whether it parsed
    fs,              \* unzipper: names present in the target folder
    fs0,             \* unzipper: names present when the run started
    gz_files,        \* unzipper: list(source_path.glob('*.gz'))
    gi,              \* unzipper: index of the gz loop
    target_file,     \* unzipper: target_file
    original_target, \* unzipper: original_target
    counter,         \* unzipper: counter
    extracted_count, \* unzipper: extracted_count
    writes           \* unzipper history: every open(target_file, 'wb')

vars == <<script, pc, dir_exists, listing, gpx_fit_files, i, cur, tried, df, df_list, dfs, df_all,
          df_salzburg, box, plot_df, lines, stdout, reads, fs, fs0, gz_files, gi,
          target_file, original_target, counter, extracted_count, writes>>

pipeVars == <<dir_exists, listing, gpx_fit_files, i, cur, tried, df, df_list, dfs, df_all, stdout, reads>>
plotVars == <<df_salzburg, box, plot_df, lines>>
unzipVars == <<fs, fs0, gz_files, gi, target_file, original_target, counter,
               extracted_count, writes>>

----------------------------------------------------------------------------
(* Bounds of the model *)

MaxFiles == 2
MaxPoints == 3
MaxRows == 2
MaxGz == 2

(* Program constants, functions.py lines 115-118, in hundredths of a degree *)
LON_MIN == 1290
LON_MAX == 1308
LAT_MIN == 4772
LAT_MAX == 4782

(* None for an optional value is the empty set, a present value v is {v} *)
None == {}
Some(v) == {v}
Val(o) == CHOOSE v \in o : TRUE

----------------------------------------------------------------------------
(* Generic helpers *)

SeqsUpTo(S, n) == UNION {[1..k -> S] : k \in 0..n}

Last(s) == s[Len(s)]

RECURSIVE Isqrt(_, _)
Isqrt(n, r) == IF (r + 1) * (r + 1) > n THEN r ELSE Isqrt(n, r + 1)

\* math.sqrt((x - x0) ** 2 + (y - y0) ** 2)
PlanarDist(x0, y0, x, y) == Isqrt((x - x0) * (x - x0) + (y - y0) * (y - y0), 0)

----------------------------------------------------------------------------
(* File names and file contents *)

Exts == {".gpx", ".fit", ".txt"}

\* a directory holds distinct names: the k-th entry has stem k
Listings ==
    UNION {{[k \in 1..n |-> [stem |-> k, ext |-> f[k]]] : f \in [1..n -> Exts]}
            : n \in 0..MaxFiles}

NoName == [stem |-> 0, ext |-> ""]

\* str.endswith(suffix) on a file name
EndsWith(name, suffix) == name.ext = suffix

\* os.path.join(folder, file) and os.path.basename(filepath)
PathJoin(folder, file) == <<folder, file>>
Basename(filepath) == filepath[Len(filepath)]

\* a variant of encodings: the first two entries swapped
encodings_reordered == <<"latin-1", "utf-8", "cp1252", "iso-8859-1">>

\* read_gpx_file's encodings list
encodings == <<"utf-8", "latin-1", "cp1252", "iso-8859-1">>

\* what the bytes of a file are like: the encodings under which reading them
\* raises a decode error, and whether the text is a well-formed document
FileFacts == [bad : SUBSET {encodings[k] : k \in 1..Len(encodings)}, wellformed : BOOLEAN]
NoFacts == [bad |-> {}, wellformed |-> TRUE]

\* two sample points: PA on the corner (LON_MIN, LAT_MIN) of the Salzburg box,
\* PB east of the box
PA == [lon |-> LON_MIN, lat |-> LAT_MIN, ele |-> "424.0", time |-> "t1"]
PB == [lon |-> LON_MAX + 1, lat |-> LAT_MIN, ele |-> "None", time |-> "None"]
SamplePoints == {PA, PB}

\* MaxPoints bounds the points of all the files of the directory together:
\* a file may hold what the files read before it have left
RECURSIVE PointsRead(_)
PointsRead(history) ==
    IF history = <<>> THEN 0 ELSE Len(Head(history).pts) + PointsRead(Tail(history))

PointSeqs == SeqsUpTo(SamplePoints, MaxPoints - PointsRead(reads))

\* how point k (k >= 2) is attached: to the current segment, as the first point
\* of a new segment of the current track, or of a new track
Marks(pts) == {m \in [1..Len(pts) -> {"pt", "seg", "trk"}] : Len(pts) = 0 \/ m[1] = "trk"}

\* an empty track, or a track holding one empty segment, in front of the rest
Pads == {"none", "emptytrack", "emptysegment"}

RECURSIVE BuildTracks(_, _, _)
BuildTracks(pts, marks, k) ==
    IF k = 0 THEN <<>>
    ELSE IF k = 1 THEN << << <<pts[1]>> >> >>
    ELSE LET d == BuildTracks(pts, marks, k - 1)
             nt == Len(d)
             ns == Len(d[nt])
         IN  CASE marks[k] = "pt"  -> [d EXCEPT ![nt][ns] = Append(@, pts[k])]
               [] marks[k] = "seg" -> [d EXCEPT ![nt] = Append(@, <<pts[k]>>)]
               [] marks[k] = "trk" -> Append(d, << <<pts[k]>> >>)

\* a parsed document: gpx.tracks, each track its segments, each segment its points
BuildDoc(pts, marks, pad) ==
    LET d == BuildTracks(pts, marks, Len(pts))
    IN  CASE pad = "none"         -> d
          [] pad = "emptytrack"   -> <<<<>>>> \o d
          [] pad = "emptysegment" -> << << <<>> >> >> \o d

----------------------------------------------------------------------------
(* functions.py: read_gpx_file, lines 69-80 *)

GpxRow(point, filepath) ==
    [lat |-> point.lat, lon |-> point.lon, ele |-> point.ele, time |-> point.time,
     name |-> Basename(filepath)]

RECURSIVE SegmentRows(_, _, _)
SegmentRows(points, k, filepath) ==
    IF k > Len(points) THEN <<>>
    ELSE <<GpxRow(points[k], filepath)>> \o SegmentRows(points, k + 1, filepath)

RECURSIVE TrackRows(_, _, _)
TrackRows(segments, k, filepath) ==
    IF k > Len(segments) THEN <<>>
    ELSE SegmentRows(segments[k], 1, filepath) \o TrackRows(segments, k + 1, filepath)

RECURSIVE GpxRows(_, _, _)
GpxRows(tracks, k, filepath) ==
    IF k > Len(tracks) THEN <<>>
    ELSE TrackRows(tracks[k], 1, filepath) \o GpxRows(tracks, k + 1, filepath)

\* df.empty
Empty(table) == Len(table) = 0

\* a variant of Concat: a table is put in front of the ones merged so far
RECURSIVE ConcatPrepending(_)
ConcatPrepending(tables) ==
    IF tables = <<>> THEN <<>> ELSE ConcatPrepending(Tail(tables)) \o Head(tables)

\* pd.concat(tables, ignore_index=True)
RECURSIVE Concat(_)
Concat(tables) ==
    IF tables = <<>> THEN <<>> ELSE Head(tables) \o Concat(Tail(tables))

\* the loop body's "if not df.empty: df_list.append(df)", lines 100-101
AppendNonEmpty(list, table) == IF Empty(table) THEN list ELSE Append(list, table)

\* one printed line: the message and the file it names
Msg(text, file) == [msg |-> text, file |-> file]

----------------------------------------------------------------------------
(* functions.py: the geographic filters *)

\* lines 121-124: all four module constants, combined with &
SalzburgFilter(table) ==
    LET Keep(r) == (r.lon >= LON_MIN) /\ (r.lon <= LON_MAX) /\
                   (r.lat >= LAT_MIN) /\ (r.lat <= LAT_MAX)
    IN  SelectSeq(table, Keep)

\* a variant of FilterLonMin: the mask is applied one row late (row k is
\* kept when row k - 1 passes), the first row is judged by itself
FilterLonMinShifted(table, lon_min) ==
    LET Pass(k) == table[IF k = 1 THEN 1 ELSE k - 1].lon >= Val(lon_min)
        RECURSIVE Pick(_)
        Pick(k) == IF k > Len(table) THEN <<>>
                   ELSE (IF Pass(k) THEN <<table[k]>> ELSE <<>>) \o Pick(k + 1)
    IN  IF lon_min # None THEN Pick(1) ELSE table

\* plot_map lines 200-201
FilterLonMin(table, lon_min) ==
    LET Keep(r) == r.lon >= Val(lon_min)
    IN  IF lon_min # None THEN SelectSeq(table, Keep) ELSE table

\* a variant of FilterLonMax: < in place of <=
FilterLonMaxStrict(table, lon_max) ==
    LET Keep(r) == r.lon < Val(lon_max)
    IN  IF lon_max # None THEN SelectSeq(table, Keep) ELSE table

\* plot_map lines 203-204
FilterLonMax(table, lon_max) ==
    LET Keep(r) == r.lon <= Val(lon_max)
    IN  IF lon_max # None THEN SelectSeq(table, Keep) ELSE table

\* plot_map lines 206-207
FilterLatMin(table, lat_min) ==
    LET Keep(r) == r.lat >= Val(lat_min)
    IN  IF lat_min # None THEN SelectSeq(table, Keep) ELSE table

\* plot_map lines 209-210
FilterLatMax(table, lat_max) ==
    LET Keep(r) == r.lat <= Val(lat_max)
    IN  IF lat_max # None THEN SelectSeq(table, Keep) ELSE table

\* plot_map lines 199-210: the four filters in order, each rebinding the local df
PlotMapFilter(table, b) ==
    FilterLatMax(FilterLatMin(FilterLonMax(FilterLonMin(table, b.lon_min), b.lon_max),
                              b.lat_min), b.lat_max)

\* df["name"].unique(): the names in order of first appearance
RECURSIVE Unique(_, _)
Unique(table, seen) ==
    IF table = <<>> THEN <<>>
    ELSE IF Head(table).name \in seen THEN Unique(Tail(table), seen)
    ELSE <<Head(table).name>> \o Unique(Tail(table), seen \cup {Head(table).name})

convert_x(lon) == lon
convert_y(lat) == lat

\* plot_map lines 216-225: one plotted line per activity
ActivityLine(table, activity) ==
    LET Mine(r) == r.name = activity
        activity_data == SelectSeq(table, Mine)
    IN  [activity |-> activity,
         x |-> [k \in 1..Len(activity_data) |-> convert_x(activity_data[k].lon)],
         y |-> [k \in 1..Len(activity_data) |-> convert_y(activity_data[k].lat)]]

PlotLines(table) ==
    LET activities == Unique(table, {})
    IN  [k \in 1..Len(activities) |-> ActivityLine(table, activities[k])]

SalzburgBox ==
    [lon_min |-> Some(LON_MIN), lon_max |-> Some(LON_MAX),
     lat_min |-> Some(LAT_MIN), lat_max |-> Some(LAT_MAX)]

NoBox == [lon_min |-> None, lon_max |-> None, lat_min |-> None, lat_max |-> None]

\* the tables and boxes plot_map is called with when script = "plot_map":
\* points on and just outside every side of the Salzburg box
GridLons == {LON_MIN - 1, LON_MIN, LON_MAX, LON_MAX + 1}
GridLats == {LAT_MIN - 1, LAT_MIN, LAT_MAX, LAT_MAX + 1}
GridRows ==
    {[lat |-> la, lon |-> lo, ele |-> "None", time |-> "None",
      name |-> [stem |-> 1, ext |-> ".gpx"]] : la \in GridLats, lo \in GridLons}
GridTables == SeqsUpTo(GridRows, MaxRows)
Boxes ==
    [lon_min : {None, Some(LON_MIN), Some(LON_MAX)}, lon_max : {None, Some(LON_MAX)},
     lat_min : {None, Some(LAT_MIN), Some(LAT_MAX)}, lat_max : {None, Some(LAT_MAX)}]

----------------------------------------------------------------------------
(* Initial states *)

NoPath == <<>>

IdlePipe ==
    /\ dir_exists = TRUE /\ listing = <<>> /\ gpx_fit_files = <<>> /\ i = 1 /\ cur = NoFacts /\ tried = <<>>
    /\ df = <<>> /\ df_list = <<>> /\ dfs = <<>> /\ df_all = <<>> /\ stdout = <<>>
    /\ reads = <<>>

IdlePlot == df_salzburg = <<>> /\ box = NoBox /\ plot_df = <<>> /\ lines = <<>>

IdleUnzip ==
    /\ fs = {} /\ fs0 = {} /\ gz_files = <<>> /\ gi = 1 /\ target_file = NoPath
    /\ original_target = NoPath /\ counter = 1 /\ extracted_count = 0 /\ writes = <<>>

\* functions.py run as a script
InitFunctions ==
    /\ script = "functions" /\ pc = "start"
    /\ dir_exists \in BOOLEAN
    /\ listing \in Listings
    /\ gpx_fit_files = <<>>
    /\ i = 1 /\ cur = NoFacts /\ tried = <<>>
    /\ df = <<>> /\ df_list = <<>> /\ dfs = <<>> /\ df_all = <<>> /\ stdout = <<>>
    /\ reads = <<>>
    /\ IdlePlot /\ IdleUnzip

\* a call plot_map(table, lon_min, lon_max, lat_min, lat_max)
InitPlotMap ==
    /\ script = "plot_map" /\ pc = "plot_map"
    /\ IdlePipe /\ IdleUnzip
    /\ df_salzburg \in GridTables
    /\ box \in Boxes
    /\ plot_df = <<>> /\ lines = <<>>

----------------------------------------------------------------------------
(* functions.py, module level *)

filepath == PathJoin("gpx_folder", listing[i])

\* lines 87-89
CheckFolder ==
    /\ script = "functions" /\ pc = "start"
    /\ \/ /\ ~dir_exists
          /\ stdout' = Append(stdout, Msg("Directory not found", NoName))
          /\ pc' = "exit"
       \/ /\ dir_exists
          /\ pc' = "loop"
          /\ UNCHANGED stdout
    /\ UNCHANGED <<script, dir_exists, listing, gpx_fit_files, i, cur, tried, df, df_list, dfs, df_all, reads>>
    /\ UNCHANGED <<plotVars, unzipVars>>

\* line 96 false: the entry is not a .gpx file
SkipFile ==
    /\ script = "functions" /\ pc = "loop"
    /\ i <= Len(listing)
    /\ ~EndsWith(listing[i], ".gpx")
    /\ i' = i + 1
    /\ UNCHANGED <<script, pc, dir_exists, listing, gpx_fit_files, cur, tried, df, df_list, dfs, df_all,
                   stdout, reads>>
    /\ UNCHANGED <<plotVars, unzipVars>>

\* lines 96-99 and 51: read_gpx_file(filepath) is entered
OpenFile ==
    /\ script = "functions" /\ pc = "loop"
    /\ i <= Len(listing)
    /\ EndsWith(listing[i], ".gpx")
    /\ cur' \in FileFacts
    /\ tried' = <<>>
    /\ pc' = "read_gpx_file"
    /\ UNCHANGED <<script, dir_exists, listing, gpx_fit_files, i, df, df_list, dfs, df_all, stdout, reads>>
    /\ UNCHANGED <<plotVars, unzipVars>>

\* read_gpx_file returned table; lines 99-101 of the loop body follow
ReturnTable(table, pts) ==
    /\ df' = table
    /\ df_list' = AppendNonEmpty(df_list, table)
    /\ reads' = Append(reads, [file |-> listing[i], ok |-> TRUE, pts |-> pts])
    /\ i' = i + 1
    /\ pc' = "loop"

\* gpxpy.parse(f) succeeded and lines 69-80 built the table
ParseAndExtract ==
    \E pts \in PointSeqs : \E marks \in Marks(pts) : \E pad \in Pads :
        ReturnTable(GpxRows(BuildDoc(pts, marks, pad), 1, filepath), pts)

\* lines 53-59: this encoding raises UnicodeDecodeError, continue
DecodeError ==
    /\ script = "functions" /\ pc = "read_gpx_file"
    /\ Len(tried) < Len(encodings)
    /\ encodings[Len(tried) + 1] \in cur.bad
    /\ tried' = Append(tried, encodings[Len(tried) + 1])
    /\ UNCHANGED <<script, pc, dir_exists, listing, gpx_fit_files, i, cur, df, df_list, dfs, df_all,
                   stdout, reads>>
    /\ UNCHANGED <<plotVars, unzipVars>>

\* a variant of ParseError: no try around the call, the exception ends the run
ParseErrorUncaught ==
    /\ script = "functions" /\ pc = "read_gpx_file"
    /\ Len(tried) < Len(encodings)
    /\ encodings[Len(tried) + 1] \notin cur.bad
    /\ ~cur.wellformed
    /\ tried' = Append(tried, encodings[Len(tried) + 1])
    /\ reads' = Append(reads, [file |-> listing[i], ok |-> FALSE, pts |-> <<>>])
    /\ pc' = "uncaught"
    /\ UNCHANGED <<script, dir_exists, listing, gpx_fit_files, i, cur, df, df_list, dfs,
                   df_all, stdout>>
    /\ UNCHANGED <<plotVars, unzipVars>>

\* lines 53-57: the text decodes but gpxpy.parse raises; the exception is no
\* UnicodeError, leaves read_gpx_file and is caught at lines 102-104
ParseError ==
    /\ script = "functions" /\ pc = "read_gpx_file"
    /\ Len(tried) < Len(encodings)
    /\ encodings[Len(tried) + 1] \notin cur.bad
    /\ ~cur.wellformed
    /\ tried' = Append(tried, encodings[Len(tried) + 1])
    /\ stdout' = Append(stdout, Msg("Error processing file", listing[i]))
    /\ reads' = Append(reads, [file |-> listing[i], ok |-> FALSE, pts |-> <<>>])
    /\ i' = i + 1
    /\ pc' = "loop"
    /\ UNCHANGED <<script, dir_exists, listing, gpx_fit_files, cur, df, df_list, dfs, df_all>>
    /\ UNCHANGED <<plotVars, unzipVars>>

\* lines 53-57 and 69-80: the text decodes and parses, break
Parsed ==
    /\ script = "functions" /\ pc = "read_gpx_file"
    /\ Len(tried) < Len(encodings)
    /\ encodings[Len(tried) + 1] \notin cur.bad
    /\ cur.wellformed
    /\ tried' = Append(tried, encodings[Len(tried) + 1])
    /\ ParseAndExtract
    /\ UNCHANGED <<script, dir_exists, listing, gpx_fit_files, cur, dfs, df_all, stdout>>
    /\ UNCHANGED <<plotVars, unzipVars>>

\* lines 60-67: the for loop ran out (else branch), errors='replace'
LossyDecode ==
    /\ script = "functions" /\ pc = "read_gpx_file"
    /\ Len(tried) = Len(encodings)
    /\ tried' = Append(tried, "replace")
    /\ \/ /\ cur.wellformed
          /\ ParseAndExtract
          /\ UNCHANGED stdout
       \/ /\ ~cur.wellformed
          /\ stdout' = Append(stdout, Msg("Failed to read", listing[i]))
          /\ df' = <<>>
          /\ df_list' = AppendNonEmpty(df_list, <<>>)
          /\ reads' = Append(reads, [file |-> listing[i], ok |-> FALSE, pts |-> <<>>])
          /\ i' = i + 1
          /\ pc' = "loop"
    /\ UNCHANGED <<script, dir_exists, listing, gpx_fit_files, cur, dfs, df_all>>
    /\ UNCHANGED <<plotVars, unzipVars>>

\* lines 107-109
NoData ==
    /\ script = "functions" /\ pc = "loop"
    /\ i > Len(listing)
    /\ df_list = <<>>
    /\ stdout' = Append(stdout, Msg("No GPX files found in the specified directory!", NoName))
    /\ pc' = "exit"
    /\ UNCHANGED <<script, dir_exists, listing, gpx_fit_files, i, cur, tried, df, df_list, dfs, df_all, reads>>
    /\ UNCHANGED <<plotVars, unzipVars>>

\* line 112
Merge ==
    /\ script = "functions" /\ pc = "loop"
    /\ i > Len(listing)
    /\ df_list # <<>>
    /\ df_all' = Concat(df_list)
    /\ pc' = "filter"
    /\ UNCHANGED <<script, dir_exists, listing, gpx_fit_files, i, cur, tried, df, df_list, dfs, stdout, reads>>
    /\ UNCHANGED <<plotVars, unzipVars>>

\* a variant of ModuleFilter: the rows are dropped from df_all itself
ModuleFilterInPlace ==
    /\ script = "functions" /\ pc = "filter"
    /\ df_all' = SalzburgFilter(df_all)
    /\ df_salzburg' = df_all'
    /\ pc' = "main"
    /\ UNCHANGED <<script, dir_exists, listing, gpx_fit_files, i, cur, tried, df, df_list,
                   dfs, stdout, reads>>
    /\ UNCHANGED <<box, plot_df, lines, unzipVars>>

\* lines 121-124
ModuleFilter ==
    /\ script = "functions" /\ pc = "filter"
    /\ df_salzburg' = SalzburgFilter(df_all)
    /\ pc' = "main"
    /\ UNCHANGED <<script, pipeVars, box, plot_df, lines, unzipVars>>

\* lines 236-241
MainCall ==
    /\ script = "functions" /\ pc = "main"
    /\ box' = SalzburgBox
    /\ pc' = "plot_map"
    /\ UNCHANGED <<script, pipeVars, df_salzburg, plot_df, lines, unzipVars>>

\* plot_map, lines 197-233: the caller's table is df_salzburg
PlotMap ==
    /\ script \in {"functions", "plot_map"} /\ pc = "plot_map"
    /\ plot_df' = PlotMapFilter(df_salzburg, box)
    /\ lines' = PlotLines(plot_df')
    /\ pc' = "done"
    /\ UNCHANGED <<script, pipeVars, df_salzburg, box, unzipVars>>

----------------------------------------------------------------------------
(* facets_test.py *)

\* run of facets_test.py
InitFacets ==
    /\ script = "facets_test" /\ pc = "start"
    /\ dir_exists \in BOOLEAN
    /\ listing \in Listings
    /\ gpx_fit_files = <<>>
    /\ i = 1 /\ cur = NoFacts /\ tried = <<>>
    /\ df = <<>> /\ df_list = <<>> /\ dfs = <<>> /\ df_all = <<>> /\ stdout = <<>>
    /\ reads = <<>>
    /\ IdlePlot /\ IdleUnzip

\* line 14: [os.path.join(folder, f) for f in all_files if f.endswith((".gpx", ".fit"))]
RECURSIVE SelectGpxFit(_, _)
SelectGpxFit(all_files, k) ==
    IF k > Len(all_files) THEN <<>>
    ELSE (IF EndsWith(all_files[k], ".gpx") \/ EndsWith(all_files[k], ".fit")
          THEN <<PathJoin("folder", all_files[k])>> ELSE <<>>)
         \o SelectGpxFit(all_files, k + 1)

\* lines 38-47: the points of one segment, with x0, y0, d0 carried along
RECURSIVE SegmentDist(_, _, _, _, _, _)
SegmentDist(points, k, x0, y0, d0, path) ==
    IF k > Len(points) THEN <<>>
    ELSE LET point == points[k]
             d == d0 + PlanarDist(x0, y0, point.lon, point.lat)
         IN  <<[lon |-> point.lon, lat |-> point.lat, ele |-> point.ele,
                time |-> point.time, name |-> Basename(path), dist |-> d]>>
             \o SegmentDist(points, k + 1, point.lon, point.lat, d, path)

\* lines 34-47: an empty segment is skipped; x0, y0, d0 start at the segment's
\* first point and 0
RECURSIVE FacetTrackRows(_, _, _)
FacetTrackRows(segments, k, path) ==
    IF k > Len(segments) THEN <<>>
    ELSE (IF segments[k] = <<>> THEN <<>>
          ELSE SegmentDist(segments[k], 1, segments[k][1].lon, segments[k][1].lat, 0, path))
         \o FacetTrackRows(segments, k + 1, path)

\* lines 31-52: the table of one .gpx file
RECURSIVE FacetGpxRows(_, _, _)
FacetGpxRows(tracks, k, path) ==
    IF k > Len(tracks) THEN <<>>
    ELSE FacetTrackRows(tracks[k], 1, path) \o FacetGpxRows(tracks, k + 1, path)

\* the record table fit2gpx returns for the samples of a .fit file
FitSample(p) ==
    [longitude |-> p.lon, latitude |-> p.lat, altitude |-> p.ele, timestamp |-> p.time]
FitTable(pts) == [k \in 1..Len(pts) |-> FitSample(pts[k])]

\* lines 62-78: name, dist over the whole file, rename and column selection
RECURSIVE FitRows(_, _, _, _, _, _)
FitRows(samples, k, x0, y0, d0, path) ==
    IF k > Len(samples) THEN <<>>
    ELSE LET x == samples[k].longitude
             y == samples[k].latitude
             xs == IF k = 1 THEN samples[1].longitude ELSE x0
             ys == IF k = 1 THEN samples[1].latitude ELSE y0
             ds == IF k = 1 THEN 0 ELSE d0
             d == ds + PlanarDist(xs, ys, x, y)
         IN  <<[lon |-> x, lat |-> y, ele |-> samples[k].altitude,
                time |-> samples[k].timestamp, name |-> Basename(path), dist |-> d]>>
             \o FitRows(samples, k + 1, x, y, d, path)

\* lines 91-93: pd.to_datetime and the date and hour columns
ToDatetime(t) == IF t = "None" THEN "NaT" ELSE t
TimeColumns(table) ==
    [k \in 1..Len(table) |->
        [lon |-> table[k].lon, lat |-> table[k].lat, ele |-> table[k].ele,
         time |-> ToDatetime(table[k].time), name |-> table[k].name,
         dist |-> table[k].dist,
         date |-> <<"date", ToDatetime(table[k].time)>>,
         hour |-> <<"hour", ToDatetime(table[k].time)>>]]

\* lines 98-113: one panel per activity name, holding its lon, lat points
FacetPanels(table) ==
    {[name |-> n,
      points |-> LET Mine(r) == r.name = n
                     mine == SelectSeq(table, Mine)
                 IN  [k \in 1..Len(mine) |-> <<mine[k].lon, mine[k].lat>>]]
       : n \in {table[k].name : k \in 1..Len(table)}}

facet_filepath == gpx_fit_files[i]

\* lines 13-17; os.listdir raises when the folder is missing and nothing catches it
FacetsListDir ==
    /\ script = "facets_test" /\ pc = "start"
    /\ \/ /\ dir_exists
          /\ gpx_fit_files' = SelectGpxFit(listing, 1)
          /\ pc' = "loop"
       \/ /\ ~dir_exists
          /\ pc' = "uncaught"
          /\ UNCHANGED gpx_fit_files
    /\ UNCHANGED <<script, dir_exists, listing, i, cur, tried, df, df_list, dfs, df_all,
                   stdout, reads>>
    /\ UNCHANGED <<plotVars, unzipVars>>

\* lines 21-29: gpxpy.parse raises (undecodable as utf-8, or malformed), continue
FacetsGpxError ==
    /\ script = "facets_test" /\ pc = "loop"
    /\ i <= Len(gpx_fit_files)
    /\ EndsWith(Basename(facet_filepath), ".gpx")
    /\ \E facts \in FileFacts : "utf-8" \in facts.bad \/ ~facts.wellformed
    /\ stdout' = Append(stdout, Msg("Hiba a fajlban", Basename(facet_filepath)))
    /\ reads' = Append(reads, [file |-> Basename(facet_filepath), ok |-> FALSE, pts |-> <<>>])
    /\ i' = i + 1
    /\ UNCHANGED <<script, pc, dir_exists, listing, gpx_fit_files, cur, tried, df, df_list,
                   dfs, df_all>>
    /\ UNCHANGED <<plotVars, unzipVars>>

\* lines 21-52 and 83: the file parses, its table is built and appended
FacetsGpx ==
    /\ script = "facets_test" /\ pc = "loop"
    /\ i <= Len(gpx_fit_files)
    /\ EndsWith(Basename(facet_filepath), ".gpx")
    /\ \E facts \in FileFacts : "utf-8" \notin facts.bad /\ facts.wellformed
    /\ \E pts \in PointSeqs : \E marks \in Marks(pts) : \E pad \in Pads :
          /\ df' = FacetGpxRows(BuildDoc(pts, marks, pad), 1, facet_filepath)
          /\ reads' = Append(reads, [file |-> Basename(facet_filepath), ok |-> TRUE,
                                      pts |-> pts])
    /\ dfs' = Append(dfs, df')
    /\ i' = i + 1
    /\ UNCHANGED <<script, pc, dir_exists, listing, gpx_fit_files, cur, tried, df_list,
                   df_all, stdout>>
    /\ UNCHANGED <<plotVars, unzipVars>>

\* lines 54-60: fit_to_dataframes raises, continue
FacetsFitError ==
    /\ script = "facets_test" /\ pc = "loop"
    /\ i <= Len(gpx_fit_files)
    /\ EndsWith(Basename(facet_filepath), ".fit")
    /\ stdout' = Append(stdout, Msg("Hiba a FIT fajlban", Basename(facet_filepath)))
    /\ reads' = Append(reads, [file |-> Basename(facet_filepath), ok |-> FALSE, pts |-> <<>>])
    /\ i' = i + 1
    /\ UNCHANGED <<script, pc, dir_exists, listing, gpx_fit_files, cur, tried, df, df_list,
                   dfs, df_all>>
    /\ UNCHANGED <<plotVars, unzipVars>>

\* lines 54-78 and 83: the file converts, its table is built and appended
FacetsFit ==
    /\ script = "facets_test" /\ pc = "loop"
    /\ i <= Len(gpx_fit_files)
    /\ EndsWith(Basename(facet_filepath), ".fit")
    /\ \E pts \in PointSeqs :
          /\ df' = FitRows(FitTable(pts), 1, 0, 0, 0, facet_filepath)
          /\ reads' = Append(reads, [file |-> Basename(facet_filepath), ok |-> TRUE,
                                      pts |-> pts])
    /\ dfs' = Append(dfs, df')
    /\ i' = i + 1
    /\ UNCHANGED <<script, pc, dir_exists, listing, gpx_fit_files, cur, tried, df_list,
                   df_all, stdout>>
    /\ UNCHANGED <<plotVars, unzipVars>>

\* lines 86-88
FacetsNoData ==
    /\ script = "facets_test" /\ pc = "loop"
    /\ i > Len(gpx_fit_files)
    /\ dfs = <<>>
    /\ stdout' = Append(stdout, Msg("Nincs feldolgozhato fajl!", NoName))
    /\ pc' = "exit"
    /\ UNCHANGED <<script, dir_exists, listing, gpx_fit_files, i, cur, tried, df, df_list,
                   dfs, df_all, reads>>
    /\ UNCHANGED <<plotVars, unzipVars>>

\* line 90
FacetsMerge ==
    /\ script = "facets_test" /\ pc = "loop"
    /\ i > Len(gpx_fit_files)
    /\ dfs # <<>>
    /\ df_all' = Concat(dfs)
    /\ pc' = "time_columns"
    /\ UNCHANGED <<script, dir_exists, listing, gpx_fit_files, i, cur, tried, df, df_list,
                   dfs, stdout, reads>>
    /\ UNCHANGED <<plotVars, unzipVars>>

\* lines 91-125
FacetsPlot ==
    /\ script = "facets_test" /\ pc = "time_columns"
    /\ df_all' = TimeColumns(df_all)
    /\ lines' = FacetPanels(df_all')
    /\ stdout' = Append(stdout, Msg("Plot sikeresen elmentve", NoName))
    /\ pc' = "done"
    /\ UNCHANGED <<script, dir_exists, listing, gpx_fit_files, i, cur, tried, df, df_list,
                   dfs, reads>>
    /\ UNCHANGED <<df_salzburg, box, plot_df, unzipVars>>

----------------------------------------------------------------------------
(* strava_unzipper.py: unzip_strava_files *)

(* A file name is the sequence of its pieces: letters, "_", digits, and one   *)
(* piece per extension (".gpx"), so that "a_1.gpx" is <<"a","_","1",".gpx">>  *)
(* whether it is the name of an archive's content or a name made up for a    *)
(* conflict.                                                                 *)
ExtPieces == {".gpx", ".fit", ".gz", ".tar"}
Digits == <<"1", "2", "3", "4", "5", "6", "7", "8", "9">>

\* str(counter)
Str(k) == Digits[k]

\* the archives that may lie in the source folder
GzNames ==
    {<<"a", ".gpx", ".gz">>, <<"a", "_", "1", ".gpx", ".gz">>,
     <<"a", ".fit", ".gz">>, <<"a", ".gz">>}

\* other names that may already lie in the target folder
PlainNames ==
    {<<"a", ".gpx">>, <<"a", "_", "1", ".gpx">>, <<"a", "_", "2", ".gpx">>,
     <<"a">>, <<"a", "_", "1">>}

\* the lists glob may return: distinct names, in any order
GzLists ==
    {l \in SeqsUpTo(GzNames, MaxGz) : \A m, n \in 1..Len(l) : m # n => l[m] # l[n]}

\* name.endswith(a + b) for two extension pieces
EndsWith2(name, a, b) ==
    Len(name) >= 2 /\ name[Len(name) - 1] = a /\ name[Len(name)] = b

\* pathlib: suffix is the last extension piece of a name (not its first piece),
\* stem is the name without it
Suffix(name) ==
    IF Len(name) >= 2 /\ Last(name) \in ExtPieces THEN <<Last(name)>> ELSE <<>>
Stem(name) == SubSeq(name, 1, Len(name) - Len(Suffix(name)))

\* lines 47-53
OutputFilename(gz_name) ==
    IF EndsWith2(gz_name, ".gpx", ".gz") THEN SubSeq(gz_name, 1, Len(gz_name) - 1)
    ELSE IF EndsWith2(gz_name, ".fit", ".gz") THEN SubSeq(gz_name, 1, Len(gz_name) - 1)
    ELSE Stem(gz_name)

\* lines 62-64: f"{name_part}_{counter}{suffix}"
ConflictName(original, k) == Stem(original) \o <<"_", Str(k)>> \o Suffix(original)

\* a variant of Exists: no name is ever found
ExistsNever(name, folder) == name \in {}

\* Path.exists()
Exists(name, folder) == name \in folder

\* how lines 68-70 can end: done; an exception before the target is created
\* (the archive cannot be opened); an exception after it was created (bad data)
Outcomes == {"extracted", "failed_before_create", "failed_after_create"}

\* unzip_strava_files(source_folder, target_folder), the folders being the same
\* one as at lines 94-97
InitUnzip ==
    /\ script = "strava_unzipper" /\ pc = "start"
    /\ IdlePipe /\ IdlePlot
    /\ gz_files \in GzLists
    /\ \E pre \in SUBSET PlainNames :
          /\ fs0 = pre \cup {gz_files[k] : k \in 1..Len(gz_files)}
          /\ fs = fs0
    /\ gi = 1 /\ target_file = NoPath /\ original_target = NoPath /\ counter = 1
    /\ extracted_count = 0 /\ writes = <<>>

\* lines 22-40
UnzipStart ==
    /\ script = "strava_unzipper" /\ pc = "start"
    /\ \/ /\ gz_files = <<>>
          /\ stdout' = Append(stdout, Msg("No .gz files found", NoPath))
          /\ pc' = "done"
       \/ /\ gz_files # <<>>
          /\ stdout' = Append(stdout, Msg("Found compressed files to process", NoPath))
          /\ pc' = "gz_loop"
    /\ extracted_count' = 0
    /\ UNCHANGED <<script, dir_exists, listing, gpx_fit_files, i, cur, tried, df, df_list,
                   dfs, df_all, reads, plotVars>>
    /\ UNCHANGED <<fs, fs0, gz_files, gi, target_file, original_target, counter, writes>>

\* lines 42-60
UnzipName ==
    /\ script = "strava_unzipper" /\ pc = "gz_loop"
    /\ gi <= Len(gz_files)
    /\ target_file' = OutputFilename(gz_files[gi])
    /\ original_target' = target_file'
    /\ counter' = 1
    /\ stdout' = Append(stdout, Msg("Processing", gz_files[gi]))
    /\ pc' = "while"
    /\ UNCHANGED <<script, dir_exists, listing, gpx_fit_files, i, cur, tried, df, df_list,
                   dfs, df_all, reads, plotVars>>
    /\ UNCHANGED <<fs, fs0, gz_files, gi, extracted_count, writes>>

\* lines 61-65: one turn of the while loop
UnzipProbe ==
    /\ script = "strava_unzipper" /\ pc = "while"
    /\ Exists(target_file, fs)
    /\ target_file' = ConflictName(original_target, counter)
    /\ counter' = counter + 1
    /\ UNCHANGED <<script, pc, pipeVars, plotVars>>
    /\ UNCHANGED <<fs, fs0, gz_files, gi, original_target, extracted_count, writes>>

\* lines 67-76: the extraction, and the except clause
UnzipExtract ==
    /\ script = "strava_unzipper" /\ pc = "while"
    /\ ~Exists(target_file, fs)
    /\ \E outcome \in Outcomes :
          /\ writes' = IF outcome = "failed_before_create" THEN writes
                        ELSE Append(writes, [gz |-> gz_files[gi], target |-> target_file,
                                             before |-> fs, outcome |-> outcome])
          /\ fs' = IF outcome = "failed_before_create" THEN fs ELSE fs \cup {target_file}
          /\ extracted_count' = IF outcome = "extracted" THEN extracted_count + 1
                                 ELSE extracted_count
          /\ stdout' = Append(stdout, Msg(IF outcome = "extracted" THEN "Extracted"
                                           ELSE "Error processing", gz_files[gi]))
    /\ gi' = gi + 1
    /\ pc' = "gz_loop"
    /\ UNCHANGED <<script, dir_exists, listing, gpx_fit_files, i, cur, tried, df, df_list,
                   dfs, df_all, reads, plotVars>>
    /\ UNCHANGED <<fs0, gz_files, target_file, original_target, counter>>

\* lines 78-84
UnzipSummary ==
    /\ script = "strava_unzipper" /\ pc = "gz_loop"
    /\ gi > Len(gz_files)
    /\ stdout' = Append(stdout, Msg("Processing complete!", NoPath))
    /\ pc' = "done"
    /\ UNCHANGED <<script, dir_exists, listing, gpx_fit_files, i, cur, tried, df, df_list,
                   dfs, df_all, reads, plotVars>>
    /\ UNCHANGED unzipVars

----------------------------------------------------------------------------

Init == InitFunctions \/ InitPlotMap \/ InitFacets \/ InitUnzip

Next ==
    \/ CheckFolder \/ SkipFile \/ OpenFile \/ DecodeError \/ ParseError \/ Parsed
    \/ LossyDecode \/ NoData \/ Merge \/ ModuleFilter \/ MainCall \/ PlotMap
    \/ FacetsListDir \/ FacetsGpxError \/ FacetsGpx \/ FacetsFitError \/ FacetsFit
    \/ FacetsNoData \/ FacetsMerge \/ FacetsPlot
    \/ UnzipStart \/ UnzipName \/ UnzipProbe \/ UnzipExtract \/ UnzipSummary

Spec == Init /\ [][Next]_vars

----------------------------------------------------------------------------
(* Properties *)

\* the entries of the listing the running script recognizes
Recognized(name) ==
    IF script = "functions" THEN EndsWith(name, ".gpx")
    ELSE EndsWith(name, ".gpx") \/ EndsWith(name, ".fit")
Candidates == SelectSeq(listing, Recognized)

\* the message the script prints when the directory holds no recognized file
NoFilesMessage ==
    IF script = "functions" THEN "No GPX files found in the specified directory!"
    ELSE "Nincs feldolgozhato fajl!"

Pipeline == script \in {"functions", "facets_test"}
LoopOver ==
    \/ script = "functions" /\ pc \in {"exit", "filter", "main", "plot_map", "done"} /\ dir_exists
    \/ script = "facets_test" /\ pc \in {"exit", "time_columns", "done"}
Merged ==
    \/ script = "functions" /\ pc \in {"filter", "main", "plot_map", "done"}
    \/ script = "facets_test" /\ pc \in {"time_columns", "done"}

\* C1: a directory without recognized files ends the run with the "no files
\* found" message, a directory whose recognized files all failed or were empty
\* ends it with a different message, and neither run plots anything.
C1_TwoTerminalConditions ==
    (Pipeline /\ pc = "exit" /\ dir_exists) =>
        /\ lines = <<>>
        /\ Candidates = <<>> => Last(stdout).msg = NoFilesMessage
        /\ Candidates # <<>> => Last(stdout).msg # NoFilesMessage

\* what a row says of its point and its file
Core(r) == [lon |-> r.lon, lat |-> r.lat, ele |-> r.ele, name |-> r.name]

\* the rows the files that parsed hold, file after file, point after point
RECURSIVE RowsOfParsed(_)
RowsOfParsed(history) ==
    IF history = <<>> THEN <<>>
    ELSE LET h == Head(history)
         IN  (IF h.ok
              THEN [k \in 1..Len(h.pts) |->
                       [lon |-> h.pts[k].lon, lat |-> h.pts[k].lat, ele |-> h.pts[k].ele,
                        name |-> h.file]]
              ELSE <<>>) \o RowsOfParsed(Tail(history))

\* C2: a file that fails to parse never aborts the batch: the run is not ended
\* by it, every recognized file is read, failing or not, and the merged table
\* holds exactly the rows of the files that parsed, in processing order.
C2_FailureNeverAbortsBatch ==
    Pipeline =>
        /\ pc = "uncaught" => ~dir_exists
        /\ LoopOver =>
              /\ Len(reads) = Len(Candidates)
              /\ \A k \in 1..Len(reads) : reads[k].file = Candidates[k]
        /\ Merged => [k \in 1..Len(df_all) |-> Core(df_all[k])] = RowsOfParsed(reads)

\* a failing file was followed by a file that parsed, and the merge took place
C2_Witness ==
    /\ Merged
    /\ \E k \in 1..(Len(reads) - 1) :
          ~reads[k].ok /\ reads[k + 1].ok /\ reads[k + 1].pts # <<>>

\* a row satisfies every bound of b that is present, inclusively
InBox(r, b) ==
    /\ b.lon_min = None \/ r.lon >= Val(b.lon_min)
    /\ b.lon_max = None \/ r.lon <= Val(b.lon_max)
    /\ b.lat_min = None \/ r.lat >= Val(b.lat_min)
    /\ b.lat_max = None \/ r.lat <= Val(b.lat_max)

RowsInBox(table, b) == LET Keep(r) == InBox(r, b) IN SelectSeq(table, Keep)

\* C3: the geographic filter keeps a row iff the row satisfies every present
\* bound inclusively, an absent bound constrains nothing, the kept rows keep
\* their order, and without any bound the output is the input.
C3_FilterKeepsExactlyRowsInBox ==
    /\ (script \in {"functions", "plot_map"} /\ pc = "done") =>
          /\ plot_df = RowsInBox(df_salzburg, box)
          /\ box = NoBox => plot_df = df_salzburg
    /\ (script = "functions" /\ pc \in {"main", "plot_map", "done"}) =>
          df_salzburg = RowsInBox(df_all, SalzburgBox)

\* plot_map ran with some bounds present and some absent, kept a row lying on a
\* bound and dropped another row
C3_Witness ==
    /\ script = "plot_map" /\ pc = "done"
    /\ box.lon_max # None /\ box.lat_min = None /\ box.lon_min = None
    /\ \E k \in 1..Len(plot_df) : plot_df[k].lon = LON_MAX /\ plot_df[k].lat < LAT_MIN
    /\ Len(plot_df) < Len(df_salzburg)

\* the rows of a per-file table carry a dist that starts at 0 and never decreases
DistFromZeroNonDecreasing(table) ==
    table # <<>> =>
        /\ table[1].dist = 0
        /\ \A k \in 1..(Len(table) - 1) : table[k].dist <= table[k + 1].dist

\* C4: for a single file, however its points are divided into tracks and
\* segments, the dist sequence of its rows is non-decreasing and starts at 0.
C4_DistNonDecreasingFromZero ==
    script = "facets_test" => DistFromZeroNonDecreasing(df)

\* the tables handed to the merge
MergeInput == IF script = "functions" THEN df_list ELSE dfs

RECURSIVE SumLen(_)
SumLen(tables) == IF tables = <<>> THEN 0 ELSE Len(Head(tables)) + SumLen(Tail(tables))

\* C5: merging tables of sizes n1..nK gives n1+...+nK rows, table after table
\* and row after row: row j of table k is row n1+...+n(k-1)+j of the result.
C5_MergeKeepsEveryRowInOrder ==
    ((script = "functions" /\ Merged) \/ (script = "facets_test" /\ pc = "time_columns")) =>
        /\ Len(df_all) = SumLen(MergeInput)
        /\ \A k \in 1..Len(MergeInput) : \A j \in 1..Len(MergeInput[k]) :
              df_all[SumLen(SubSeq(MergeInput, 1, k - 1)) + j] = MergeInput[k][j]

\* two non-empty tables of two files were merged
C5_Witness ==
    /\ script = "facets_test" /\ pc = "time_columns"
    /\ Len(dfs) = 2 /\ Len(dfs[1]) = 2 /\ Len(dfs[2]) = 1
    /\ dfs[1][1].name # dfs[2][1].name

\* C6: filtering by a box what was filtered by that box changes nothing; the
\* module-level filter followed by plot_map's filter with the same bounds gives
\* what one filter gives.
C6_FilterIdempotent ==
    /\ (script \in {"functions", "plot_map"} /\ pc = "done") =>
          PlotMapFilter(plot_df, box) = plot_df
    /\ (script = "functions" /\ pc = "done") =>
          /\ SalzburgFilter(df_salzburg) = df_salzburg
          /\ plot_df = PlotMapFilter(df_all, SalzburgBox)
          /\ plot_df = SalzburgFilter(df_all)

\* the module-level filter dropped rows and kept rows, and plot_map has run on
\* what it kept
C6_Witness ==
    /\ script = "functions" /\ pc = "done"
    /\ plot_df # <<>> /\ Len(plot_df) < Len(df_all)

\* C7: the geographic filter does not change its input: the module-level
\* filter leaves df_all as it was and plot_map leaves its caller's table as it
\* was.
C7_FilterLeavesInputUnchanged ==
    [][/\ pc = "filter" => df_all' = df_all
       /\ pc = "plot_map" => df_salzburg' = df_salzburg /\ df_all' = df_all]_vars

\* both filters have run, each dropped a row of its input, and the inputs still
\* hold their rows
C7_Witness ==
    \/ /\ script = "functions" /\ pc = "done"
       /\ Len(df_salzburg) < Len(df_all) /\ Len(df_all) = MaxPoints
    \/ /\ script = "plot_map" /\ pc = "done"
       /\ Len(plot_df) < Len(df_salzburg) /\ Len(df_salzburg) = MaxRows

\* C8: a file that parses but holds no point gives an empty table that is not
\* handed to the merge, and is not reported as an error: the merge input never
\* holds an empty table.
C8_NoEmptyTableInMergeInput ==
    Pipeline =>
        /\ \A k \in 1..Len(MergeInput) : ~Empty(MergeInput[k])
        /\ \A k \in 1..Len(reads) : reads[k].ok =>
              \A m \in 1..Len(stdout) : stdout[m].file # reads[k].file

\* the order read_gpx_file is to try the encodings in, and then the lossy decode
DecodeOrder == <<"utf-8", "latin-1", "cp1252", "iso-8859-1", "replace">>

\* read_gpx_file has returned or raised for the file read last
Returned == script = "functions" /\ pc # "read_gpx_file" /\ tried # <<>>

\* the reader printed "Failed to read" for the file read last and returned an
\* empty table
LoggedAndEmpty ==
    /\ \E m \in 1..Len(stdout) : stdout[m] = Msg("Failed to read", Last(reads).file)
    /\ ~Last(reads).ok
    /\ Empty(df)

\* C9: read_gpx_file tries utf-8, latin-1, cp1252, iso-8859-1 in this order and
\* uses the first that raises no decode error; the lossy decode is tried only
\* after all four raised one; the reader logs the file and returns an empty
\* table only when the lossy decode fails.
C9_EncodingsInOrderThenLossy ==
    script = "functions" =>
        /\ Len(tried) <= Len(DecodeOrder)
        /\ \A k \in 1..Len(tried) : tried[k] = DecodeOrder[k]
        /\ \A k \in 1..(Len(tried) - 1) : tried[k] \in cur.bad
        /\ pc = "read_gpx_file" => \A k \in 1..Len(tried) : tried[k] \in cur.bad
        /\ Returned => Last(tried) \notin cur.bad
        /\ \A k \in 1..Len(tried) : tried[k] = "replace" =>
              cur.bad = {"utf-8", "latin-1", "cp1252", "iso-8859-1"}
        /\ Returned => (LoggedAndEmpty <=> (Last(tried) = "replace" /\ ~cur.wellformed))

\* all four encodings raised a decode error, the lossy decode failed too, and
\* the file was logged
C9_Witness ==
    /\ Returned
    /\ Last(tried) = "replace"
    /\ LoggedAndEmpty

\* the name of an archive without its .gz
WithoutGz(gz_name) == SubSeq(gz_name, 1, Len(gz_name) - 1)

\* target is the name plain if that is free in folder, and otherwise
\* <stem>_<k><suffix> for the first k = 1, 2, ... that is free
FirstFreeName(target, plain, folder) ==
    IF plain \notin folder THEN target = plain
    ELSE \E k \in 1..Len(Digits) :
            /\ target = Stem(plain) \o <<"_", Digits[k]>> \o Suffix(plain)
            /\ target \notin folder
            /\ \A j \in 1..(k - 1) : (Stem(plain) \o <<"_", Digits[j]>> \o Suffix(plain)) \in folder

\* C10: unzip_strava_files never opens for writing a path that exists: the
\* target is the name without .gz if free, else the first free <stem>_<k><suffix>;
\* nothing that was there or was extracted earlier is overwritten, the search
\* for a name ends, and extracted_count counts the completed extractions.
C10_NeverWritesExistingPath ==
    script = "strava_unzipper" =>
        /\ \A k \in 1..Len(writes) :
              /\ writes[k].target \notin writes[k].before
              /\ fs0 \subseteq writes[k].before
              /\ \A j \in 1..(k - 1) : writes[j].target \in writes[k].before
              /\ FirstFreeName(writes[k].target, WithoutGz(writes[k].gz), writes[k].before)
        /\ fs0 \subseteq fs
        /\ counter <= Cardinality(fs) + 1
        /\ pc = "while" => (target_file \in fs => counter <= Cardinality(fs))
        /\ extracted_count =
              Cardinality({k \in 1..Len(writes) : writes[k].outcome = "extracted"})

\* the second archive's name without .gz is the name the first archive was
\* extracted to in this run, the first having met a name that was there before
C10_Witness ==
    /\ script = "strava_unzipper" /\ pc = "done"
    /\ Len(writes) = 2
    /\ WithoutGz(writes[2].gz) = writes[1].target
    /\ writes[1].target # WithoutGz(writes[1].gz)
    /\ writes[2].target \notin fs0
    /\ extracted_count = 1

====
